---- MODULE Spec2Model ----
(***************************************************************************)
(* Model of the book-review service: registration, login with a signed,    *)
(* time-bounded token kept in the session, the review mutations of         *)
(* router/auth_users.js, and the rate-limited asynchronous gateway of the  *)
(* public router.                                                          *)
(*                                                                         *)
(* Time is the value of Date.now() in milliseconds.  The token carries its *)
(* instants in whole seconds, as jsonwebtoken does (floor(ms / 1000)).     *)
(***************************************************************************)
EXTENDS Integers, Sequences, FiniteSets, TLC

VARIABLES
    users,      \* auth_users.js: let users = []           (array of {username, password})
    books,      \* booksdb.js: books[isbn].reviews          (isbn -> set of {user, review})
    session,    \* req.session.authorization per session: {} when undefined,
                \* else the one-element set {{accessToken, username}}
    now,        \* Date.now(), milliseconds
    ticks,      \* how many times the clock has advanced (bounds the run)
    res,        \* the response the last request received
    hist,       \* history: what the last request changed (blank when nothing)
    asyncRequestCounts, \* the Map client IP -> array of request timestamps
    inflight,   \* async requests waiting for the answer of their downstream call
    nreq,       \* how many async requests have arrived (the last request's id)
    admitted,   \* history: per client, the timestamps of its admitted requests
    denied,     \* history: ids of the requests the rate limiter turned down
    called,     \* history: ids of the requests that issued a downstream call
    pending,    \* PUT requests that have arrived and whose handler has not run yet
    submitted,  \* history: every PUT request that has arrived
    written     \* history: per book and user, the text of the last completed
                \* Upsert that no completed Delete has followed (None otherwise)

authVars == <<users, books, session, hist, written>>
gatewayVars == <<asyncRequestCounts, inflight, nreq, admitted, denied, called>>
batchVars == <<pending, submitted>>
vars == <<users, books, session, now, ticks, res, hist,
          asyncRequestCounts, inflight, nreq, admitted, denied, called,
          pending, submitted, written>>

----------------------------------------------------------------------------
(* Bounds of the model *)

MaxTicks == 2              \* clock advances in a run of the review service
MaxGatewayTicks == 2       \* clock advances in a run of the gateway
MaxRequests == 3           \* async requests in a run of the gateway
MaxLimiterTicks == 3       \* clock advances in a run of the rate limiter
MaxLimiterRequests == 5    \* async requests in a run of the rate limiter
MaxTimedRequests == 3      \* async requests in a run of the gateway with timers
MaxExampleTicks == 3       \* clock advances in a run of the worked example
MaxExampleRequests == 4    \* async requests in a run of the worked example

(* Inputs *)

None == "none"
Usernames == {"al", "Al"}
Passwords == {"pw"}                      \* passwords users register with
LoginNames == Usernames \cup {""}
RegisterPasswords == Passwords \cup {""}
LoginPasswords == Passwords \cup {"Pw", ""}
Texts == {"good", "bad"}
Sessions == {1}
Isbns == {1, 2}            \* keys of the catalog
UnknownIsbn == 3           \* an isbn the catalog does not hold
RequestIsbns == Isbns \cup {UnknownIsbn}
ClockSteps == {1, 3599999}
Clients == {"ip1", "ip2"}  \* req.ip
InvalidIsbn == -1          \* an :isbn that is not made of digits and dashes
\* the files that define the public router
Routers == {"general.js", "part_000", "part_001"}

----------------------------------------------------------------------------
(* TokenService: jwt.sign / jwt.verify with the secret 'access' *)

AccessSecret == "access"
ExpiresIn == 60 * 60

\* seconds since the epoch, as jsonwebtoken computes them
ClockTimestamp(ms) == ms \div 1000

\* the HS256 signature, an injective function of key and signed payload
HS256(key, username, pw, iat, exp) ==
    [key |-> key, username |-> username, pw |-> pw, iat |-> iat, exp |-> exp]

\* a signer that normalises the subject to lower case before signing
Lower(username) == IF username = "Al" THEN "al" ELSE username
SignLowercase(username, password, secret, expiresIn, ms) ==
    LET iat == ClockTimestamp(ms)
        exp == iat + expiresIn
    IN  [username |-> Lower(username), pw |-> password, iat |-> iat, exp |-> exp,
         sig |-> HS256(secret, Lower(username), password, iat, exp)]

Sign(username, password, secret, expiresIn, ms) ==
    LET iat == ClockTimestamp(ms)
        exp == iat + expiresIn
    IN  [username |-> username, pw |-> password, iat |-> iat, exp |-> exp,
         sig |-> HS256(secret, username, password, iat, exp)]

\* a verifier that lets the token live one second too long
VerifyLate(token, secret, ms) ==
    IF token.sig # HS256(secret, token.username, token.pw, token.iat, token.exp)
    THEN [err |-> "JsonWebTokenError", username |-> None]
    ELSE IF ClockTimestamp(ms) > token.exp
    THEN [err |-> "TokenExpiredError", username |-> None]
    ELSE [err |-> None, username |-> token.username]

\* a verifier that only decodes: the signature is not compared
VerifyUnsigned(token, secret, ms) ==
    IF ClockTimestamp(ms) >= token.exp
    THEN [err |-> "TokenExpiredError", username |-> None]
    ELSE [err |-> None, username |-> token.username]

Verify(token, secret, ms) ==
    IF token.sig # HS256(secret, token.username, token.pw, token.iat, token.exp)
    THEN [err |-> "JsonWebTokenError", username |-> None]
    ELSE IF ClockTimestamp(ms) >= token.exp
    THEN [err |-> "TokenExpiredError", username |-> None]
    ELSE [err |-> None, username |-> token.username]

----------------------------------------------------------------------------
(* The review objects: books[isbn].reviews is an object keyed by username *)

HasProp(reviews, key) == \E e \in reviews : e.user = key

\* a store that appends an entry instead of assigning the property
SetPropAppend(reviews, key, text) ==
    reviews \cup {[user |-> key, review |-> text]}

\* a store that assigns a fresh reviews object holding the one entry
SetPropFresh(reviews, key, text) == {[user |-> key, review |-> text]}

\* reviews[key] = {review: text}
SetProp(reviews, key, text) ==
    {e \in reviews : e.user # key} \cup {[user |-> key, review |-> text]}

\* a delete that empties the whole reviews object of the book
DeletePropAll(reviews, key) == {}

\* delete reviews[key]
DeleteProp(reviews, key) == {e \in reviews : e.user # key}

\* a route that answers from a copy of the reviews taken at start-up
ListForSnapshot(isbn) == {}

\* GET /review/:isbn answers book.reviews
ListFor(isbn) == books[isbn]

\* req.session.authorization, when it is defined
Authorization(s) == CHOOSE a \in session[s] : TRUE

\* what the client receives: the route answering, the HTTP status, the message
\* and, for GET /review/:isbn, the reviews in the body
Response(op, status, msg) ==
    [op |-> op, status |-> status, msg |-> msg, retryAfter |-> 0, body |-> {}]

\* the text of key's review, None when there is none
TextOf(reviews, key) ==
    IF HasProp(reviews, key) THEN (CHOOSE e \in reviews : e.user = key).review ELSE None

\* history record of a mutation: who, which book, the text written, the text before
Changed(user, isbn, text, before) ==
    [user |-> user, isbn |-> isbn, text |-> text, before |-> before]
NoChange == Changed(None, 0, None, None)

\* the history of completed writes after a mutation: a completed Upsert sets
\* the text of its key, a completed Delete clears it
Recorded ==
    IF hist' = NoChange THEN written
    ELSE [written EXCEPT ![hist'.isbn][hist'.user] = hist'.text]

----------------------------------------------------------------------------
Init ==
    /\ users = <<>>
    /\ books = [i \in Isbns |-> {}]
    /\ session = [s \in Sessions |-> {}]
    /\ now = 0
    /\ ticks = 0
    /\ res = Response("none", 0, None)
    /\ hist = NoChange
    /\ asyncRequestCounts = <<>>
    /\ inflight = {}
    /\ nreq = 0
    /\ admitted = [c \in Clients |-> <<>>]
    /\ denied = {}
    /\ called = {}
    /\ pending = {}
    /\ submitted = {}
    /\ written = [i \in Isbns |-> [u \in Usernames |-> None]]

AdvanceTime(d, max) ==
    /\ ticks < max
    /\ now' = now + d
    /\ ticks' = ticks + 1
    /\ UNCHANGED <<users, books, session, res, hist, written>>
    /\ UNCHANGED gatewayVars
    /\ UNCHANGED batchVars

\* POST /register
Register(username, password) ==
    /\ IF password = ""
       THEN /\ res' = Response("register", 400, "no password")
            /\ UNCHANGED users
       ELSE IF username = ""
       THEN /\ res' = Response("register", 400, "no username")
            /\ UNCHANGED users
       ELSE IF \E k \in 1..Len(users) : users[k].username = username
       THEN /\ res' = Response("register", 400, "Repeated username")
            /\ UNCHANGED users
       ELSE /\ users' = Append(users, [username |-> username, password |-> password])
            /\ res' = Response("register", 200, "added")
    /\ hist' = NoChange
    /\ UNCHANGED <<books, session, now, ticks, written>>
    /\ UNCHANGED gatewayVars
    /\ UNCHANGED batchVars

\* a credential check that compares the username only
authenticatedUserByName(username, password) ==
    \E k \in 1..Len(users) : users[k].username = username

authenticatedUser(username, password) ==
    \E k \in 1..Len(users) :
        users[k].username = username /\ users[k].password = password

\* POST /login
Login(s, username, password) ==
    /\ IF username = "" \/ password = ""
       THEN /\ res' = Response("login", 404, "no password or login")
            /\ UNCHANGED session
       ELSE IF authenticatedUser(username, password)
       THEN /\ session' = [session EXCEPT ![s] =
                  {[accessToken |-> Sign(username, password, AccessSecret, ExpiresIn, now),
                    username |-> username]}]
            /\ res' = Response("login", 200, "User successfully logged in")
       ELSE /\ res' = Response("login", 208, "Invalid Login")
            /\ UNCHANGED session
    /\ hist' = NoChange
    /\ UNCHANGED <<users, books, now, ticks, written>>
    /\ UNCHANGED gatewayVars
    /\ UNCHANGED batchVars

\* a response object on which a second send replaces the first
SendAgainOverwrites(first, second) == second

\* a handler that has sent first and then sends second: the headers are
\* sent, res.json throws ERR_HTTP_HEADERS_SENT and nothing more reaches the
\* client, which keeps first
SendAgain(first, second) == first

\* the handler of PUT /auth/review/:isbn; it has no await and its jwt.verify
\* callback is called synchronously, so it runs to completion in one step
HandlePut(s, isbn, text) ==
    /\ IF session[s] = {}
       THEN \* req.session.authorization is undefined: TypeError, express answers 500
            /\ res' = Response("put", 500, "TypeError")
            /\ UNCHANGED books
            /\ hist' = NoChange
       ELSE LET v == Verify(Authorization(s).accessToken, AccessSecret, now) IN
            IF v.err # None
            THEN \* sendStatus(403), then the handler goes on to res.status(200).json
                 /\ res' = SendAgain(Response("put", 403, "Forbidden"),
                                     Response("put", 200, "Book updated"))
                 /\ UNCHANGED books
                 /\ hist' = NoChange
            ELSE IF isbn \notin Isbns
            THEN \* books[isbn] is undefined: TypeError, express answers 500
                 /\ res' = Response("put", 500, "TypeError")
                 /\ UNCHANGED books
                 /\ hist' = NoChange
            ELSE /\ books' = [books EXCEPT ![isbn] = SetProp(@, v.username, text)]
                 /\ res' = Response("put", 200, "Book updated")
                 /\ hist' = Changed(v.username, isbn, text, TextOf(books[isbn], v.username))
    /\ written' = Recorded
    /\ UNCHANGED <<users, session, now, ticks>>
    /\ UNCHANGED gatewayVars

\* PUT /auth/review/:isbn, handled as it arrives
PutReview(s, isbn, text) ==
    /\ HandlePut(s, isbn, text)
    /\ UNCHANGED batchVars

\* a handler that deletes the review of the user the request names
DeletionKeyFromRequest(s, target) == target

\* the key DELETE removes: the session's username; a user named by the request
\* (target) is never read
DeletionKey(s, target) == Authorization(s).username

\* DELETE /auth/review/:isbn
DeleteReview(s, isbn, target) ==
    /\ IF session[s] = {}
       THEN \* TypeError inside the try block
            /\ res' = Response("delete", 500, "Error deleting review")
            /\ UNCHANGED books
            /\ hist' = NoChange
       ELSE LET username == DeletionKey(s, target) IN
            IF username = ""
            THEN /\ res' = Response("delete", 401, "Unauthorized")
                 /\ UNCHANGED books
                 /\ hist' = NoChange
            ELSE IF isbn \notin Isbns
            THEN /\ res' = Response("delete", 404, "Book not found")
                 /\ UNCHANGED books
                 /\ hist' = NoChange
            ELSE IF ~HasProp(books[isbn], username)
            THEN /\ res' = Response("delete", 404, "Review not found")
                 /\ UNCHANGED books
                 /\ hist' = NoChange
            ELSE /\ books' = [books EXCEPT ![isbn] = DeleteProp(@, username)]
                 /\ res' = Response("delete", 200, "Review deleted")
                 /\ hist' = Changed(username, isbn, None, TextOf(books[isbn], username))
    /\ written' = Recorded
    /\ UNCHANGED <<users, session, now, ticks>>
    /\ UNCHANGED gatewayVars
    /\ UNCHANGED batchVars

\* GET /review/:isbn, as each file of the public router defines it
GetReview(router, isbn) ==
    /\ res' =
         IF router = "part_001" /\ isbn = InvalidIsbn
         THEN \* validateIsbn
              Response("review", 400, "Invalid ISBN format")
         ELSE IF isbn \notin Isbns
         THEN Response("review", 404, "Book not found")
         ELSE IF router = "part_000" /\ ListFor(isbn) = {}
         THEN \* Object.keys(book.reviews).length === 0
              Response("review", 404, "No reviews available")
         ELSE [Response("review", 200, "reviews") EXCEPT !.body = ListFor(isbn)]
    /\ hist' = NoChange
    /\ UNCHANGED <<users, books, session, now, ticks, written>>
    /\ UNCHANGED gatewayVars
    /\ UNCHANGED batchVars

Next ==
    \/ \E d \in ClockSteps : AdvanceTime(d, MaxTicks)
    \/ \E u \in LoginNames, p \in RegisterPasswords : Register(u, p)
    \/ \E s \in Sessions, u \in LoginNames, p \in LoginPasswords : Login(s, u, p)
    \/ \E s \in Sessions, i \in RequestIsbns, t \in Texts : PutReview(s, i, t)
    \/ \E s \in Sessions, i \in RequestIsbns, tg \in Usernames : DeleteReview(s, i, tg)
    \/ \E r \in Routers, i \in RequestIsbns \cup {InvalidIsbn} : GetReview(r, i)

Spec == Init /\ [][Next]_vars

----------------------------------------------------------------------------
(* The same handlers over a session store that may hold any token: issued, *)
(* re-signed with another key, or with a payload changed after signing.    *)

ForgedSecret == "forged"
TokenExps == {ExpiresIn, 2 * ExpiresIn}
Signatures ==
    {HS256(k, u, p, 0, e) :
        k \in {AccessSecret, ForgedSecret}, u \in Usernames, p \in Passwords, e \in TokenExps}
TokenUniverse ==
    {[username |-> u, pw |-> p, iat |-> 0, exp |-> e, sig |-> g] :
        u \in Usernames, p \in Passwords, e \in TokenExps, g \in Signatures}

\* the signature is not the one the service issues for this payload
Tampered(token) ==
    token.sig # HS256(AccessSecret, token.username, token.pw, token.iat, token.exp)

InitForged ==
    /\ users = <<[username |-> "al", password |-> "pw"], [username |-> "Al", password |-> "pw"]>>
    /\ books \in [Isbns -> {{}, {[user |-> "Al", review |-> "good"]}}]
    /\ \E tok \in TokenUniverse :
          session = [s \in Sessions |-> {[accessToken |-> tok, username |-> tok.username]}]
    /\ now = 0
    /\ ticks = 0
    /\ res = Response("none", 0, None)
    /\ hist = NoChange
    /\ asyncRequestCounts = <<>>
    /\ inflight = {}
    /\ nreq = 0
    /\ admitted = [c \in Clients |-> <<>>]
    /\ denied = {}
    /\ called = {}
    /\ pending = {}
    /\ submitted = {}
    /\ written = [i \in Isbns |-> [u \in Usernames |-> None]]

NextForged ==
    \/ \E d \in ClockSteps : AdvanceTime(d, MaxTicks)
    \/ \E s \in Sessions, i \in RequestIsbns, t \in Texts : PutReview(s, i, t)
    \/ \E s \in Sessions, i \in RequestIsbns, tg \in Usernames : DeleteReview(s, i, tg)

SpecForged == InitForged /\ [][NextForged]_vars

----------------------------------------------------------------------------
(* Concurrent PUT requests of one logged-in user: the requests arrive, wait in
   the event loop, and their handlers run one at a time in any order *)

MaxUpserts == 3            \* concurrent PUT requests in a run

\* a handler whose review text is garbled by the other requests in progress
ReviewTextMixed(r) == "mixed"

\* const reviewText = req.query.review: each request carries its own text
ReviewText(r) == r.text

InitConcurrent ==
    /\ users = <<[username |-> "al", password |-> "pw"],
                 [username |-> "Al", password |-> "pw"]>>
    /\ books \in [Isbns -> SUBSET {[user |-> "al", review |-> "old"],
                                   [user |-> "Al", review |-> "good"]}]
    /\ session = [s \in Sessions |->
                    {[accessToken |-> Sign("al", "pw", AccessSecret, ExpiresIn, 0),
                      username |-> "al"]}]
    /\ now = 0
    /\ ticks = 0
    /\ res = Response("none", 0, None)
    /\ hist = NoChange
    /\ asyncRequestCounts = <<>>
    /\ inflight = {}
    /\ nreq = 0
    /\ admitted = [c \in Clients |-> <<>>]
    /\ denied = {}
    /\ called = {}
    /\ pending = {}
    /\ submitted = {}
    /\ written = [i \in Isbns |-> [u \in Usernames |-> None]]

\* a PUT request arrives while others are still waiting
Arrive(s, isbn, text) ==
    /\ Cardinality(submitted) < MaxUpserts
    /\ LET r == [id |-> Cardinality(submitted) + 1, s |-> s, isbn |-> isbn, text |-> text]
       IN  /\ pending' = pending \cup {r}
           /\ submitted' = submitted \cup {r}
    /\ UNCHANGED <<users, books, session, now, ticks, res, hist, written>>
    /\ UNCHANGED gatewayVars

\* the event loop runs the handler of one waiting request
Dispatch(r) ==
    /\ r \in pending
    /\ HandlePut(r.s, r.isbn, ReviewText(r))
    /\ pending' = pending \ {r}
    /\ UNCHANGED submitted

NextConcurrent ==
    \/ \E s \in Sessions, i \in Isbns, t \in Texts : Arrive(s, i, t)
    \/ \E r \in pending : Dispatch(r)

SpecConcurrent == InitConcurrent /\ [][NextConcurrent]_vars

----------------------------------------------------------------------------
(* RateLimiter and AsyncSearchGateway of the public router *)

\* The source configures 100 requests per window (ASYNC_RATE_LIMIT = 100); the
\* model runs the same algorithm with a small limit, so that a client reaches
\* it within MaxRequests.
ASYNC_RATE_LIMIT == 2
RATE_LIMIT_WINDOW == 60000

GatewayClockSteps == {1, 59999}
LimiterClockSteps == {1, 30000, 59999}
\* GET /async and GET /async/isbn/:isbn with the :isbn of the request
AsyncTargets ==
    {[route |-> "root", isbn |-> 0]}
        \cup {[route |-> "isbn", isbn |-> i] : i \in {1, UnknownIsbn, InvalidIsbn}}
Outcomes == {"answer", "ECONNREFUSED", "ECONNABORTED", "5xx"}

\* Map.get(ip) || []
MapGet(map, ip) == IF ip \in DOMAIN map THEN map[ip] ELSE <<>>
\* a map with one bucket: a write under one key is seen under every key
MapSetEvery(map, ip, value) ==
    [x \in DOMAIN map \cup {ip} |-> value]

\* Map.set(ip, value)
MapSet(map, ip, value) ==
    [x \in DOMAIN map \cup {ip} |-> IF x = ip THEN value ELSE map[x]]

\* Math.min(...requests)
RECURSIVE MinOf(_)
MinOf(requests) ==
    IF Len(requests) = 1 THEN Head(requests)
    ELSE LET m == MinOf(Tail(requests))
         IN  IF Head(requests) < m THEN Head(requests) ELSE m

\* Math.ceil(ms / 1000)
CeilSeconds(ms) == IF ms % 1000 = 0 THEN ms \div 1000 ELSE ms \div 1000 + 1

\* a limiter that still counts a timestamp that is exactly one window old
RetainedInclusive(requests, cutoff) == SelectSeq(requests, LAMBDA time : time >= cutoff)

\* a limiter that never forgets a timestamp
RetainedAll(requests, cutoff) == requests

\* requests.filter(time => time > cutoff)
Retained(requests, cutoff) == SelectSeq(requests, LAMBDA time : time > cutoff)

\* a limiter that lets one request too many through
LimitExceededLate(requests) == Len(requests) > ASYNC_RATE_LIMIT

\* requests.length >= ASYNC_RATE_LIMIT
LimitExceeded(requests) == Len(requests) >= ASYNC_RATE_LIMIT

\* a limiter that answers 429 and still hands the request on
DenialCallsNextToo(exceeded) == TRUE

\* whether checkRateLimit calls next(): the denial returns before it
CallsNext(exceeded) == ~exceeded

\* checkRateLimit: the retained timestamps, the decision, retryAfter of a denial
checkRateLimit(ip) ==
    LET cutoff == now - RATE_LIMIT_WINDOW
        requests == Retained(MapGet(asyncRequestCounts, ip), cutoff)
        exceeded == LimitExceeded(requests)
    IN  [requests |-> requests,
         exceeded |-> exceeded,
         next |-> CallsNext(exceeded),
         retryAfter |-> IF exceeded
                        THEN CeilSeconds(MinOf(requests) + RATE_LIMIT_WINDOW - now)
                        ELSE 0]

RateLimited(retryAfter) ==
    [Response("async", 429, "Too many requests") EXCEPT !.retryAfter = retryAfter]

\* the work of the route once checkRateLimit has called next(): the response
\* it gives at once, or the downstream call it issues
AsyncRoute(id, ip, route, isbn) ==
    IF route = "root"
    THEN \* getBookListAsync("") throws 'Invalid query string provided' before axios.get
         /\ res' = Response("async", 500, "Internal server error")
         /\ UNCHANGED <<inflight, called>>
    ELSE IF isbn = InvalidIsbn
    THEN \* validateIsbn
         /\ res' = Response("async", 400, "Invalid ISBN format")
         /\ UNCHANGED <<inflight, called>>
    ELSE \* await axios.get(URL + "/isbn/" + isbn)
         /\ inflight' = inflight \cup
                {[id |-> id, route |-> route, isbn |-> isbn, router |-> "part_001"]}
         /\ called' = called \cup {id}
         /\ res' = Response("async", 0, "awaiting downstream")

\* a limiter placed after validateIsbn: a request that validation rejects
\* stores no timestamp
PushIfValid(requests, route, isbn) ==
    IF route # "root" /\ isbn = InvalidIsbn THEN requests ELSE Append(requests, now)

\* requests.push(now) in checkRateLimit, the first middleware of the route:
\* the parameters of the request have not been looked at yet
Push(requests, route, isbn) == Append(requests, now)

\* GET /async and GET /async/isbn/:isbn, from checkRateLimit to the first await
AsyncRequest(ip, route, isbn, max) ==
    /\ nreq < max
    /\ nreq' = nreq + 1
    /\ LET rl == checkRateLimit(ip)
           id == nreq + 1
       IN  /\ IF rl.exceeded
              THEN /\ denied' = denied \cup {id}
                   /\ UNCHANGED <<asyncRequestCounts, admitted>>
              ELSE /\ asyncRequestCounts' =
                        MapSet(asyncRequestCounts, ip, Push(rl.requests, route, isbn))
                   /\ admitted' = [admitted EXCEPT ![ip] = Append(@, now)]
                   /\ UNCHANGED denied
           /\ IF rl.next
              THEN AsyncRoute(id, ip, route, isbn)
              ELSE /\ res' = RateLimited(rl.retryAfter)
                   /\ UNCHANGED <<inflight, called>>
    /\ UNCHANGED <<now, ticks>>
    /\ UNCHANGED authVars
    /\ UNCHANGED batchVars

\* GET /async and GET /async/isbn/:isbn of part_000, from its checkRateLimit
\* to the first await: the same decision as in part_001, a denial that carries
\* no retryAfter, a validateIsbn that accepts every non-empty isbn, and a
\* getBookListAsync that accepts the empty query string
AsyncRequestBasic(ip, route, isbn, max) ==
    /\ nreq < max
    /\ nreq' = nreq + 1
    /\ LET rl == checkRateLimit(ip)
           id == nreq + 1
       IN  IF rl.exceeded
           THEN /\ denied' = denied \cup {id}
                /\ res' = Response("async", 429, "Too many requests")
                /\ UNCHANGED <<asyncRequestCounts, admitted, inflight, called>>
           ELSE /\ asyncRequestCounts' =
                     MapSet(asyncRequestCounts, ip, Append(rl.requests, now))
                /\ admitted' = [admitted EXCEPT ![ip] = Append(@, now)]
                /\ inflight' = inflight \cup
                       {[id |-> id, route |-> route, isbn |-> isbn, router |-> "part_000"]}
                /\ called' = called \cup {id}
                /\ res' = Response("async", 0, "awaiting downstream")
                /\ UNCHANGED denied
    /\ UNCHANGED <<now, ticks>>
    /\ UNCHANGED authVars
    /\ UNCHANGED batchVars

\* GET /async and GET /async/isbn/:isbn of general.js, up to the first await:
\* no rate limiter and no validation in front of the handler
AsyncRequestGeneral(route, isbn, max) ==
    /\ nreq < max
    /\ nreq' = nreq + 1
    /\ inflight' = inflight \cup
           {[id |-> nreq + 1, route |-> route, isbn |-> isbn, router |-> "general.js"]}
    /\ called' = called \cup {nreq + 1}
    /\ res' = Response("async", 0, "awaiting downstream")
    /\ UNCHANGED <<asyncRequestCounts, admitted, denied, now, ticks>>
    /\ UNCHANGED authVars
    /\ UNCHANGED batchVars

\* the answer of GET /isbn/:isbn to the internal hop
DownstreamStatus(isbn) == IF isbn \in Isbns THEN 200 ELSE 404

\* the body the synchronous /isbn route sends with its 404
DownstreamBody == "Book not found, browse all books at /"

\* the timeout option of axios.get in milliseconds; 0, the default of axios,
\* is no timeout
AxiosTimeout(router) == IF router = "general.js" THEN 0 ELSE 10000

\* the downstream call of r ends with outcome; the route answers its client
DownstreamReply(r, outcome) ==
    /\ r \in inflight
    /\ outcome = "ECONNABORTED" => AxiosTimeout(r.router) > 0
    /\ inflight' = inflight \ {r}
    /\ res' =
         IF r.router = "general.js"
         THEN IF outcome = "answer" /\ (r.route = "root" \/ DownstreamStatus(r.isbn) = 200)
              THEN Response("async", 200, "book")
              ELSE \* axios rejects every status outside 2xx; the catch answers 500
                   Response("async", 500, "Error retrieving book")
         ELSE IF outcome = "answer"
         THEN IF r.route = "root" \/ DownstreamStatus(r.isbn) = 200
              THEN Response("async", 200, "book")
              ELSE IF r.router = "part_000"
              THEN \* error.status and error.data are passed on
                   Response("async", DownstreamStatus(r.isbn), DownstreamBody)
              ELSE \* the 404 is answered with a body written by the route
                   Response("async", 404, "Book not found, try the synchronous endpoint")
         ELSE IF r.router = "part_000"
         THEN \* the error carries no status: the catch answers 500
              Response("async", 500, "Internal server error")
         ELSE IF outcome = "ECONNREFUSED"
         THEN Response("async", 503, "Service unavailable")
         ELSE Response("async", 500, "Internal server error")
    /\ UNCHANGED <<asyncRequestCounts, nreq, admitted, denied, called, now, ticks>>
    /\ UNCHANGED authVars
    /\ UNCHANGED batchVars

\* a cleanup that deletes every entry holding an aged timestamp, younger
\* timestamps included
CleanupWholeEntries ==
    /\ LET cutoff == now - RATE_LIMIT_WINDOW
           kept == {ip \in DOMAIN asyncRequestCounts :
                       Retained(asyncRequestCounts[ip], cutoff) = asyncRequestCounts[ip]}
       IN  asyncRequestCounts' = [ip \in kept |-> asyncRequestCounts[ip]]
    /\ UNCHANGED <<inflight, nreq, admitted, denied, called, now, ticks, res>>
    /\ UNCHANGED authVars
    /\ UNCHANGED batchVars

\* a cleanup that empties the map
CleanupAll ==
    /\ asyncRequestCounts' = [ip \in {} |-> <<>>]
    /\ UNCHANGED <<inflight, nreq, admitted, denied, called, now, ticks, res>>
    /\ UNCHANGED authVars
    /\ UNCHANGED batchVars

\* the setInterval callback: drop aged timestamps, delete emptied entries
Cleanup ==
    /\ LET cutoff == now - RATE_LIMIT_WINDOW
           kept == {ip \in DOMAIN asyncRequestCounts :
                       Retained(asyncRequestCounts[ip], cutoff) # <<>>}
       IN  asyncRequestCounts' =
               [ip \in kept |-> Retained(asyncRequestCounts[ip], cutoff)]
    /\ UNCHANGED <<inflight, nreq, admitted, denied, called, now, ticks, res>>
    /\ UNCHANGED authVars
    /\ UNCHANGED batchVars

\* the gateway with every route, serving one client
NextGateway ==
    \/ \E d \in GatewayClockSteps : AdvanceTime(d, MaxGatewayTicks)
    \/ \E tg \in AsyncTargets : AsyncRequest("ip1", tg.route, tg.isbn, MaxRequests)
    \/ \E r \in inflight, outcome \in Outcomes : DownstreamReply(r, outcome)
    \/ Cleanup

SpecGateway == Init /\ [][NextGateway]_vars

\* the downstream call of request id runs into the timeout of axios
Timeout(id) ==
    \E r \in inflight : r.id = id /\ DownstreamReply(r, "ECONNABORTED")

\* the gateway as part_001 and as general.js define it; the downstream may
\* answer, fail, or stay silent for ever, and a timer that was set does fire
NextGatewayTimed ==
    \/ \E tg \in AsyncTargets : AsyncRequest("ip1", tg.route, tg.isbn, MaxTimedRequests)
    \/ \E tg \in AsyncTargets : AsyncRequestGeneral(tg.route, tg.isbn, MaxTimedRequests)
    \/ \E r \in inflight, outcome \in Outcomes : DownstreamReply(r, outcome)

SpecGatewayTimed ==
    /\ Init
    /\ [][NextGatewayTimed]_vars
    /\ \A id \in 1..MaxTimedRequests : WF_vars(Timeout(id))

\* the clock of the worked example: requests 10 s apart, then one at 61 s
ExampleClockSteps == {10000, 61000 - 10000 * ASYNC_RATE_LIMIT}
\* the timestamps 0 s, 10 s, ... of the first ASYNC_RATE_LIMIT requests
ExampleTimestamps == [k \in 1..ASYNC_RATE_LIMIT |-> 10000 * (k - 1)]

\* the rate limiter of part_001 and of part_000 serving one client on GET /async
NextRetryAfter ==
    \/ \E d \in ExampleClockSteps : AdvanceTime(d, MaxExampleTicks)
    \/ AsyncRequest("ip1", "root", 0, MaxExampleRequests)
    \/ AsyncRequestBasic("ip1", "root", 0, MaxExampleRequests)
    \/ \E r \in inflight, outcome \in Outcomes : DownstreamReply(r, outcome)
    \/ Cleanup

SpecRetryAfter == Init /\ [][NextRetryAfter]_vars

\* the rate limiter with every client, on the route GET /async
NextLimiter ==
    \/ \E d \in LimiterClockSteps : AdvanceTime(d, MaxLimiterTicks)
    \/ \E ip \in Clients : AsyncRequest(ip, "root", 0, MaxLimiterRequests)
    \/ Cleanup

SpecLimiter == Init /\ [][NextLimiter]_vars

----------------------------------------------------------------------------
(* Properties *)

Bound(s) == session[s] # {}
Users == {users[k] : k \in 1..Len(users)}
\* the reviews of a collection that are not by user u
OthersOf(reviews, u) == {e \in reviews : e.user # u}

\* C1: after an Upsert by an authenticated user u on an existing book, also
\* when u already had a review there, ListFor of the book holds exactly one
\* entry for u and its text is the text just submitted.
C1_UpsertReplaces ==
    (res.op = "put" /\ res.status = 200) =>
        {e \in ListFor(hist.isbn) : e.user = hist.user}
            = {[user |-> hist.user, review |-> hist.text]}

\* an Upsert succeeded over an earlier review of the same user with another text
C1_Witness ==
    /\ res.op = "put" /\ res.status = 200
    /\ hist.before # None /\ hist.before # hist.text

\* C2 (as stated): a Delete that names the review of a user other than the
\* caller is answered with an authorization error and removes no review.
C2_Original ==
    [][res'.op = "delete" =>
        \A s \in Sessions, i \in Isbns, tg \in Usernames :
          (Bound(s) /\ tg # Authorization(s).username /\ DeleteReview(s, i, tg))
              => (res'.status \in {401, 403} /\ books' = books)]_vars

\* C2 (amended): a Delete issued through a session bound to u2 never removes
\* or changes a review of another user, whichever user the request names; it
\* is not an authorization error: it removes u2's own review (200) or reports
\* not-found (404).
C2_DeleteOwnOnly ==
    [][res'.op = "delete" =>
        \A s \in Sessions, i \in RequestIsbns, tg \in Usernames :
          (Bound(s) /\ DeleteReview(s, i, tg)) =>
              /\ \A j \in Isbns :
                    OthersOf(books'[j], Authorization(s).username)
                        = OthersOf(books[j], Authorization(s).username)
              /\ \A j \in Isbns \ {i} : books'[j] = books[j]
              /\ res'.status \in {200, 404}]_vars

\* a Delete removed the caller's review from a book another user has reviewed
C2_Witness ==
    /\ res.op = "delete" /\ res.status = 200
    /\ \E e \in books[hist.isbn] : e.user # hist.user

\* C3: a review mutation (Upsert or Delete) through a session whose token does
\* not verify, expired included, is rejected as unauthenticated/forbidden and
\* leaves the review collection unchanged.
C3_MutationsGated ==
    [][res'.op \in {"put", "delete"} =>
        \A s \in Sessions, i \in RequestIsbns, t \in Texts, tg \in Usernames :
          ( /\ Bound(s)
            /\ Verify(Authorization(s).accessToken, AccessSecret, now).err # None
            /\ PutReview(s, i, t) \/ DeleteReview(s, i, tg) )
              => (res'.status \in {401, 403} /\ books' = books)]_vars

\* C4: a token issued at Login verifies to its user at every instant strictly
\* before issued-at + ttl and is reported expired at every instant from then on.
C4_TokenRoundTrip ==
    \A s \in Sessions :
        Bound(s) =>
            LET tok == Authorization(s).accessToken
                v == Verify(tok, AccessSecret, now)
            IN  IF now < (tok.iat + ExpiresIn) * 1000
                THEN v.err = None /\ v.username = Authorization(s).username
                ELSE v.err = "TokenExpiredError" /\ v.username = None

\* an Upsert was refused at the very instant the session's token expired
C4_Witness ==
    /\ res.op = "put" /\ res.status = 403
    /\ \A s \in Sessions :
          Bound(s) /\ now = (Authorization(s).accessToken.iat + ExpiresIn) * 1000

\* C5: a token whose signature is not the issued one never verifies: Verify
\* reports an invalid signature whatever the time, an Upsert through it is
\* answered 403 and writes no review.
C5_TamperedRejected ==
    [][res'.op = "put" =>
        \A s \in Sessions, i \in RequestIsbns, t \in Texts :
          (Bound(s) /\ Tampered(Authorization(s).accessToken) /\ PutReview(s, i, t)) =>
              /\ Verify(Authorization(s).accessToken, AccessSecret, now).err
                    = "JsonWebTokenError"
              /\ res'.status = 403
              /\ books' = books]_vars

\* an Upsert was refused for a token that is unexpired and names a registered
\* user but carries another signature
C5_Witness ==
    /\ res.op = "put" /\ res.status = 403
    /\ Bound(1) /\ Tampered(Authorization(1).accessToken)
    /\ ClockTimestamp(now) < Authorization(1).accessToken.exp

\* the admitted requests of client c whose timestamps lie in the trailing
\* window (t - RATE_LIMIT_WINDOW, t]
AdmittedInWindow(c, t) ==
    {k \in 1..Len(admitted[c]) :
        admitted[c][k] > t - RATE_LIMIT_WINDOW /\ admitted[c][k] <= t}

\* C6: after any sequence of admissions, denials, clock advances and cleanup
\* passes, no client has more than ASYNC_RATE_LIMIT admitted requests in a
\* trailing window of RATE_LIMIT_WINDOW ms, whether the window ends now or at
\* any admitted request (where the count of a window is largest).
C6_WindowQuota ==
    \A c \in Clients :
        \A t \in {now} \cup {admitted[c][k] : k \in 1..Len(admitted[c])} :
            Cardinality(AdmittedInWindow(c, t)) <= ASYNC_RATE_LIMIT

\* a client was turned down, and later admitted again, so that it has more
\* admitted requests than the limit, spread over more than one window
C6_Witness ==
    /\ denied # {}
    /\ \E c \in Clients :
          /\ Len(admitted[c]) > ASYNC_RATE_LIMIT
          /\ AdmittedInWindow(c, now) # {}
          /\ Cardinality(AdmittedInWindow(c, now)) < Len(admitted[c])

\* C7: a request the rate limiter turns down is answered 429 at once and no
\* downstream call is made for it; a downstream call is issued only in the
\* step that admits its own request.
C7_NoCallWhenDenied ==
    [][ /\ (nreq' # nreq /\ nreq' \in denied') =>
              /\ res'.status = 429
              /\ called' = called
              /\ inflight' = inflight
              /\ admitted' = admitted
        /\ called' # called =>
              /\ nreq' = nreq + 1
              /\ called' = called \cup {nreq'}
              /\ nreq' \notin denied'
              /\ \E c \in Clients : admitted' = [admitted EXCEPT ![c] = Append(@, now)]
      ]_vars

\* a request was turned down with 429 while the downstream calls of earlier,
\* admitted requests are still in flight
C7_Witness ==
    /\ res.op = "async" /\ res.status = 429
    /\ nreq \in denied
    /\ inflight # {}
    /\ \A r \in inflight : r.id \in called /\ r.id \notin denied

\* C8: Login answers 200 exactly when a registered user has exactly the given
\* username and password; otherwise it answers 208 (or 404 for an empty
\* field), and the session's binding is left as it was.
C8_LoginExactMatch ==
    [][res'.op = "login" =>
        \A s \in Sessions, u \in LoginNames, p \in LoginPasswords :
          Login(s, u, p) =>
              IF [username |-> u, password |-> p] \in Users
              THEN /\ res'.status = 200
                   /\ Bound(s)'
                   /\ Authorization(s)'.username = u
              ELSE /\ res'.status \in {208, 404}
                   /\ res'.status = 404 <=> (u = "" \/ p = "")
                   /\ session' = session]_vars

\* a Login failed on the password only (every username is registered) while
\* a session was bound
C8_Witness ==
    /\ res.op = "login" /\ res.status = 208
    /\ Len(users) = Cardinality(Usernames)
    /\ \E s \in Sessions : Bound(s)

\* C9: every bound session's username is the subject of the token it holds.
C9_SessionMatchesToken ==
    \A s \in Sessions :
        Bound(s) => Authorization(s).username = Authorization(s).accessToken.username

\* the session was logged in as "al", who wrote a review through it, and is
\* now bound to "Al"
C9_Witness ==
    /\ Bound(1) /\ Authorization(1).username = "Al"
    /\ \E i \in Isbns : HasProp(books[i], "al")

\* C10: an Upsert by an authenticated user for an isbn the catalog does not
\* hold is answered not-found (404) and leaves the review collection unchanged.
C10_UnknownIsbnNotFound ==
    [][res'.op = "put" =>
        \A s \in Sessions, t \in Texts :
          ( /\ Bound(s)
            /\ Verify(Authorization(s).accessToken, AccessSecret, now).err = None
            /\ PutReview(s, UnknownIsbn, t) )
              => (res'.status = 404 /\ books' = books)]_vars

\* C11: a Delete through a session bound to user u answers "Book not found"
\* (404) for an isbn the catalog does not hold and "Review not found" (404)
\* when the book holds no review by u, leaving every review as it was;
\* otherwise it answers 200 and the reviews afterwards are exactly the reviews
\* before without the one keyed (isbn, u).
C11_DeleteOutcomes ==
    [][res'.op = "delete" =>
        \A s \in Sessions, i \in RequestIsbns, tg \in Usernames :
          (Bound(s) /\ DeleteReview(s, i, tg)) =>
              LET u == Authorization(s).username IN
              IF i \notin Isbns
              THEN /\ res'.status = 404 /\ res'.msg = "Book not found"
                   /\ books' = books
              ELSE IF \A e \in books[i] : e.user # u
              THEN /\ res'.status = 404 /\ res'.msg = "Review not found"
                   /\ books' = books
              ELSE /\ res'.status = 200
                   /\ \A j \in Isbns :
                        books'[j] = IF j = i THEN {e \in books[i] : e.user # u}
                                    ELSE books[j]]_vars

\* a Delete removed a review from a book that still holds another user's
\* review, while the other book holds a review too
C11_Witness ==
    /\ res.op = "delete" /\ res.status = 200
    /\ hist.before # None
    /\ \A i \in Isbns : books[i] # {}

\* C12: GET /review/:isbn for a book of the catalog that holds no review
\* answers 200 with an empty mapping, whichever file defines the route, and
\* leaves the reviews as they were.
C12_EmptyReviewsIsSuccess ==
    [][res'.op = "review" =>
        \A r \in Routers, i \in Isbns :
          (ListFor(i) = {} /\ GetReview(r, i)) =>
              (res'.status = 200 /\ res'.body = {} /\ books' = books)]_vars

\* C13: when every one of the concurrent Upserts of user "al" has been
\* handled, in whatever order, each book they were aimed at holds exactly one
\* review by "al", its text is the text of one of the requests aimed at that
\* book, namely of the one handled last, and the reviews of others are as before.
C13_ConcurrentUpsertsConverge ==
    (pending = {} /\ submitted # {}) =>
        /\ \A i \in Isbns :
              (\E r \in submitted : r.isbn = i) =>
                  \E r \in submitted :
                      /\ r.isbn = i
                      /\ {e \in ListFor(i) : e.user = "al"}
                            = {[user |-> "al", review |-> r.text]}
        /\ {e \in ListFor(hist.isbn) : e.user = "al"}
              = {[user |-> "al", review |-> hist.text]}

\* three requests with two different texts for the same book arrived before
\* any was handled; all were handled and the book held a review before
C13_Witness ==
    /\ pending = {}
    /\ Cardinality(submitted) = MaxUpserts
    /\ \E i \in Isbns :
          /\ \A r \in submitted : r.isbn = i
          /\ {r.text : r \in submitted} = Texts
          /\ hist.before \in Texts
          /\ hist.text # (CHOOSE r \in submitted : r.id = MaxUpserts).text

\* C14: a GET /review/:isbn issued after an Upsert of text t by user u on the
\* book has completed, with no later completed Upsert or Delete of u on that
\* book, answers 200 and shows exactly one review by u, with text t, whatever
\* requests of other users or on other books came in between and whichever
\* file defines the route.
C14_ReadAfterWrite ==
    [][res'.op = "review" =>
        \A r \in Routers, i \in Isbns :
          GetReview(r, i) =>
              \A u \in Usernames :
                  written[i][u] # None =>
                      /\ res'.status = 200
                      /\ {e \in res'.body : e.user = u}
                            = {[user |-> u, review |-> written[i][u]]}]_vars

\* a read shows the reviews of both users on a book: the session wrote as one
\* user, logged in as the other and wrote again before the read
C14_Witness ==
    /\ res.op = "review" /\ res.status = 200
    /\ \E i \in Isbns :
          /\ res.body = ListFor(i)
          /\ \A u \in Usernames : written[i][u] # None
          /\ written[i]["al"] # written[i]["Al"]

\* C15: after every step no two registered users have usernames that are
\* equal ignoring case and no registered user has an empty password; a
\* registration answered "Repeated username" leaves the user list as it was.
C15_UsernamesUniqueIgnoringCase ==
    [][ /\ \A j, k \in 1..Len(users') :
              j # k => Lower(users'[j].username) # Lower(users'[k].username)
        /\ \A k \in 1..Len(users') : users'[k].password # ""
        /\ (res'.op = "register" /\ res'.msg = "Repeated username") => users' = users
      ]_vars

\* C16: a PUT or DELETE of a review through a session that holds no token is
\* answered as unauthenticated (401 or 403), not with an internal error, a
\* not-found or a success, and leaves every review as it was.
C16_UnboundSessionUnauthenticated ==
    [][res'.op \in {"put", "delete"} =>
        \A s \in Sessions, i \in RequestIsbns :
          ( /\ ~Bound(s)
            /\ \/ \E t \in Texts : PutReview(s, i, t)
               \/ \E tg \in Usernames : DeleteReview(s, i, tg) )
              => (res'.status \in {401, 403} /\ books' = books)]_vars

\* C17: an admitted GET /async issues one read of the synchronous root route,
\* and when that read is answered the request is answered 200 as GET / is.
C17_AsyncRootReadsSyncRoot ==
    [][res'.op = "async" =>
        /\ ( /\ ~checkRateLimit("ip1").exceeded
             /\ AsyncRequest("ip1", "root", 0, MaxRequests) )
              => (called' = called \cup {nreq'} /\ res'.status \notin {400, 429, 500})
        /\ \A r \in inflight :
              (r.route = "root" /\ DownstreamReply(r, "answer")) => res'.status = 200
      ]_vars

\* C18: every request that issued a downstream call is eventually answered
\* and waits no longer, also when the downstream stays silent.
C18_AdmittedRequestTerminates ==
    \A id \in 1..MaxTimedRequests :
        (id \in called) ~> (\A r \in inflight : r.id # id)

\* C19: a call of checkRateLimit for a client decides on the client's stored
\* timestamps that are younger than the window: it denies exactly when at
\* least ASYNC_RATE_LIMIT of them remain, and then stores nothing; otherwise
\* it stores the remaining timestamps followed by the one timestamp now, and
\* in both cases it leaves the entries of the other clients alone.
C19_AdmitDecision ==
    [][nreq' # nreq =>
        \A ip \in Clients :
          AsyncRequest(ip, "root", 0, MaxLimiterRequests) =>
              LET stored == IF ip \in DOMAIN asyncRequestCounts
                            THEN asyncRequestCounts[ip] ELSE <<>>
                  young == SelectSeq(stored, LAMBDA ts : now - ts < RATE_LIMIT_WINDOW)
              IN  /\ (nreq' \in denied') <=> (Len(young) >= ASYNC_RATE_LIMIT)
                  /\ IF Len(young) >= ASYNC_RATE_LIMIT
                     THEN /\ asyncRequestCounts' = asyncRequestCounts
                          /\ res'.status = 429
                     ELSE /\ asyncRequestCounts'[ip] = young \o <<now>>
                          /\ res'.status # 429
                          /\ \A c \in DOMAIN asyncRequestCounts \ {ip} :
                                asyncRequestCounts'[c] = asyncRequestCounts[c]]_vars

\* a client that had been turned down was admitted after its old timestamps
\* were discarded: its entry is shorter than its history and ends with now
C19_Witness ==
    /\ denied # {}
    /\ res.op = "async" /\ res.status # 429
    /\ \E c \in DOMAIN asyncRequestCounts :
          /\ Len(asyncRequestCounts[c]) < Len(admitted[c])
          /\ asyncRequestCounts[c][Len(asyncRequestCounts[c])] = now
          /\ now > RATE_LIMIT_WINDOW

\* C20: every denial reports as retryAfter the time, in whole seconds, until
\* the oldest timestamp it retained leaves the window; that time is positive
\* and at most the window.  In the worked example (requests 10 s apart from
\* t = 0) the request that follows ASYNC_RATE_LIMIT admitted ones is denied
\* with retryAfter = 60 - 10 * ASYNC_RATE_LIMIT seconds, and a request at
\* t = 61 s is admitted.
C20_RetryAfter ==
    [][(nreq' # nreq /\ "ip1" \in DOMAIN asyncRequestCounts) =>
        LET stored == asyncRequestCounts["ip1"]
            young == SelectSeq(stored, LAMBDA ts : now - ts < RATE_LIMIT_WINDOW)
            wait == MinOf(young) + RATE_LIMIT_WINDOW - now
        IN  /\ res'.status = 429 =>
                  /\ wait > 0 /\ wait <= RATE_LIMIT_WINDOW
                  /\ res'.retryAfter * 1000 >= wait
                  /\ res'.retryAfter * 1000 < wait + 1000
            /\ (stored = ExampleTimestamps /\ now = 10000 * ASYNC_RATE_LIMIT) =>
                  /\ res'.status = 429
                  /\ res'.retryAfter = 60 - 10 * ASYNC_RATE_LIMIT
            /\ (stored = ExampleTimestamps /\ now = 61000) =>
                  /\ res'.status # 429
                  /\ asyncRequestCounts'["ip1"] = Tail(ExampleTimestamps) \o <<61000>>
      ]_vars

C22_Original ==
    \A c \in DOMAIN asyncRequestCounts :
        /\ Len(asyncRequestCounts[c]) <= ASYNC_RATE_LIMIT
        /\ \A k \in 1..Len(asyncRequestCounts[c]) :
              /\ asyncRequestCounts[c][k] > now - RATE_LIMIT_WINDOW
              /\ asyncRequestCounts[c][k] <= now

\* C22 (amended): in every state no client has more than ASYNC_RATE_LIMIT
\* timestamps stored, and the stored timestamps of a client lie within the
\* trailing window of the newest of them, the time of the client's last
\* admission, which is not later than the current time.
C22_StoredWithinWindowOfLastAdmission ==
    \A c \in DOMAIN asyncRequestCounts :
        LET entry == asyncRequestCounts[c]
            newest == entry[Len(entry)]
        IN  /\ Len(entry) <= ASYNC_RATE_LIMIT
            /\ Len(entry) >= 1 => newest <= now
            /\ \A k \in 1..Len(entry) :
                  entry[k] > newest - RATE_LIMIT_WINDOW /\ entry[k] <= newest

\* a client's entry is full and its oldest timestamp has left the window of
\* the current time without having been discarded
C22_Witness ==
    \E c \in DOMAIN asyncRequestCounts :
        /\ Len(asyncRequestCounts[c]) = ASYNC_RATE_LIMIT
        /\ asyncRequestCounts[c][1] <= now - RATE_LIMIT_WINDOW
        /\ asyncRequestCounts[c][1] < asyncRequestCounts[c][ASYNC_RATE_LIMIT]

\* C23: under every schedule of requests, clock advances and cleanup passes,
\* each of which runs to completion before the next begins, no admitted
\* timestamp is lost: the timestamps of a client's admitted requests that are
\* still within the window are exactly the in-window timestamps of its entry,
\* in the same order, and no entry is left empty.
C23_NoAdmittedTimestampLost ==
    \A c \in Clients :
        LET entry == IF c \in DOMAIN asyncRequestCounts
                     THEN asyncRequestCounts[c] ELSE <<>>
            InWindow(ts) == ts > now - RATE_LIMIT_WINDOW
        IN  /\ SelectSeq(admitted[c], InWindow) = SelectSeq(entry, InWindow)
            /\ c \in DOMAIN asyncRequestCounts => entry # <<>>

\* a cleanup pass deleted the entry of one client while another client keeps
\* an entry with a timestamp inside the window and one that has left it
C23_Witness ==
    /\ \E c \in Clients : admitted[c] # <<>> /\ c \notin DOMAIN asyncRequestCounts
    /\ \E c \in DOMAIN asyncRequestCounts :
          /\ asyncRequestCounts[c][Len(asyncRequestCounts[c])] > now - RATE_LIMIT_WINDOW
          /\ Len(asyncRequestCounts[c]) < Len(admitted[c])

\* C24: every admitted request with valid parameters issues exactly one
\* downstream call; when that call fails, the request is answered with the
\* failure (a 5xx status) in the same step, and no further call is issued
\* for it.
C24_OneCallNoRetry ==
    [][res'.op = "async" =>
        /\ \A tg \in AsyncTargets :
              ( /\ tg.isbn # InvalidIsbn
                /\ ~checkRateLimit("ip1").exceeded
                /\ AsyncRequest("ip1", tg.route, tg.isbn, MaxRequests) )
                  => /\ called' = called \cup {nreq'}
                     /\ Cardinality({r \in inflight' : r.id = nreq'}) = 1
        /\ \A r \in inflight, outcome \in Outcomes \ {"answer"} :
              DownstreamReply(r, outcome) =>
                  /\ res'.status >= 500
                  /\ called' = called
                  /\ \A q \in inflight' : q.id # r.id
      ]_vars

\* C25: when the downstream answers the call of an admitted request with a
\* 4xx status, the request is answered with that same status and with the
\* body the downstream sent.
C25_ClientErrorPassedThrough ==
    [][res'.op = "async" =>
        \A r \in inflight :
            ( /\ r.route # "root"
              /\ DownstreamStatus(r.isbn) \in 400..499
              /\ DownstreamReply(r, "answer") )
                => /\ res'.status = DownstreamStatus(r.isbn)
                   /\ res'.msg = DownstreamBody
      ]_vars

\* C26: every Upsert request is answered with one response; when the
\* verification of the session's token fails that response is 403 Forbidden,
\* not the success "Book updated" and not a 404, and no review is written.
C26_VerifyFailureForbidden ==
    [][res'.op = "put" =>
        \A s \in Sessions, isbn \in RequestIsbns, text \in Texts :
            PutReview(s, isbn, text) =>
                /\ res'.status \in {200, 403, 500}
                /\ ( session[s] # {}
                     /\ Verify(Authorization(s).accessToken, AccessSecret, now).err # None )
                       => /\ res'.status = 403
                          /\ res'.msg # "Book updated"
                          /\ books' = books
      ]_vars
\* an expired token was refused with 403 while the book it named exists
C26_Witness ==
    /\ res.op = "put" /\ res.status = 403
    /\ \E s \in Sessions :
          /\ session[s] # {}
          /\ Verify(Authorization(s).accessToken, AccessSecret, now).err = "TokenExpiredError"

\* C27: the answer to a request of a client is decided by that client's own
\* admitted requests and the clock: it is a denial exactly when
\* ASYNC_RATE_LIMIT of its own admitted requests lie in the window, and the
\* retryAfter of a denial counts from the oldest of them. The request changes
\* nothing for any other client: the other client's entry and history stay
\* as they were, and the decision it would get at this instant is the same
\* before and after the request.
C27_ClientsIndependent ==
    [][nreq' # nreq =>
        \A ip \in Clients :
          AsyncRequest(ip, "root", 0, MaxLimiterRequests) =>
              LET own == {admitted[ip][k] : k \in AdmittedInWindow(ip, now)}
                  full == Cardinality(AdmittedInWindow(ip, now)) >= ASYNC_RATE_LIMIT
              IN  /\ (res'.status = 429) <=> full
                  /\ full => res'.retryAfter =
                        CeilSeconds((CHOOSE m \in own : \A x \in own : m <= x)
                                        + RATE_LIMIT_WINDOW - now)
                  /\ \A other \in Clients \ {ip} :
                        /\ admitted'[other] = admitted[other]
                        /\ MapGet(asyncRequestCounts', other)
                              = MapGet(asyncRequestCounts, other)
                        /\ checkRateLimit(other)' = checkRateLimit(other)
      ]_vars
\* a client was admitted at an instant at which another client is at its limit
C27_Witness ==
    /\ res.op = "async" /\ res.status # 429
    /\ \E c \in Clients, other \in Clients :
          /\ c # other
          /\ Len(admitted[c]) > 0
          /\ admitted[c][Len(admitted[c])] = now
          /\ ~checkRateLimit(c).exceeded
          /\ checkRateLimit(other).exceeded

\* C28: an Upsert or a Delete that succeeds for book i and user u changes at
\* most the review of u on i: the reviews of the other users on i, the
\* reviews of every other book, the registered users and the session
\* bindings are the same after it as before.
C28_UpsertDeleteFrame ==
    [][( /\ res'.op \in {"put", "delete"}
         /\ res'.status = 200
         /\ \/ \E s \in Sessions, i \in RequestIsbns, t \in Texts : PutReview(s, i, t)
            \/ \E s \in Sessions, i \in RequestIsbns, tg \in Usernames : DeleteReview(s, i, tg) )
          => /\ hist' # NoChange
             /\ OthersOf(books'[hist'.isbn], hist'.user)
                   = OthersOf(books[hist'.isbn], hist'.user)
             /\ \A j \in Isbns \ {hist'.isbn} : books'[j] = books[j]
             /\ users' = users
             /\ session' = session
      ]_vars
\* an Upsert succeeded on a book that holds a review of another user while
\* another book holds reviews too
C28_Witness ==
    /\ res.op = "put" /\ res.status = 200
    /\ hist # NoChange
    /\ OthersOf(books[hist.isbn], hist.user) # {}
    /\ \E j \in Isbns \ {hist.isbn} : books[j] # {}

\* C29: a cleanup pass changes no decision: for every client, what
\* checkRateLimit would answer (the timestamps it counts, denial or not,
\* retryAfter) is the same after the pass as before it, at this instant and
\* at every later one; and after the pass no client has an entry with an
\* empty timestamp list.
C29_CleanupInvisible ==
    [][(nreq' = nreq /\ asyncRequestCounts' # asyncRequestCounts /\ Cleanup) =>
        /\ \A ip \in Clients :
              /\ checkRateLimit(ip)' = checkRateLimit(ip)
              /\ \A d \in LimiterClockSteps :
                    LET cutoff == now + d - RATE_LIMIT_WINDOW
                    IN  Retained(MapGet(asyncRequestCounts', ip), cutoff)
                          = Retained(MapGet(asyncRequestCounts, ip), cutoff)
        /\ \A ip \in DOMAIN asyncRequestCounts' : asyncRequestCounts'[ip] # <<>>
      ]_vars
\* a request was denied in a run in which a cleanup pass has deleted the
\* entry of a client and the entry of another has lost aged timestamps
C29_Witness ==
    /\ res.op = "async" /\ res.status = 429
    /\ \E c \in Clients : admitted[c] # <<>> /\ c \notin DOMAIN asyncRequestCounts
    /\ \E c \in DOMAIN asyncRequestCounts :
          /\ Len(asyncRequestCounts[c]) = ASYNC_RATE_LIMIT
          /\ Len(admitted[c]) > ASYNC_RATE_LIMIT

\* C30: on the async routes the limiter runs before the validation of the
\* parameters: a request answered 400 by validateIsbn has stored its
\* timestamp like any admitted request; every request that is not denied
\* stores exactly one timestamp and a denied one stores none; the downstream
\* call to the synchronous endpoint and its answer store none.
C30_AdmissionBeforeValidation ==
    [][res'.op = "async" =>
        LET before == Len(Retained(MapGet(asyncRequestCounts, "ip1"), now - RATE_LIMIT_WINDOW))
            after == Len(MapGet(asyncRequestCounts', "ip1"))
        IN  /\ \A tg \in AsyncTargets :
                  AsyncRequest("ip1", tg.route, tg.isbn, MaxRequests) =>
                      /\ res'.status = 400 => tg.isbn = InvalidIsbn
                      /\ (tg.isbn = InvalidIsbn /\ before < ASYNC_RATE_LIMIT)
                            => res'.status = 400
                      /\ IF res'.status = 429
                         THEN asyncRequestCounts' = asyncRequestCounts
                         ELSE /\ after = before + 1
                              /\ asyncRequestCounts'["ip1"][after] = now
            /\ \A r \in inflight, outcome \in Outcomes :
                  DownstreamReply(r, outcome) => asyncRequestCounts' = asyncRequestCounts
      ]_vars
\* a request with an invalid ISBN was answered 400 and took the last slot of
\* the window
C30_Witness ==
    /\ res.op = "async" /\ res.status = 400
    /\ "ip1" \in DOMAIN asyncRequestCounts
    /\ Len(asyncRequestCounts["ip1"]) = ASYNC_RATE_LIMIT
    /\ asyncRequestCounts["ip1"][ASYNC_RATE_LIMIT] = now

====
